---- MODULE Spec2Model ----
(***************************************************************************)
(* Span matching over an ordered trace list (src/span.rs) and the          *)
(* aggregation of run results (src/utils.rs).                              *)
(*                                                                         *)
(* A Trace is modelled by the four fields the matcher reads: pid, cpu,     *)
(* trace_marker and function.  Positions are the 0-based indices of the    *)
(* Rust slice; traces[i + 1] is the record at index i.  A Span holds two   *)
(* references into the slice and is modelled by the two indices.           *)
(***************************************************************************)
EXTENDS Integers, Sequences, FiniteSets

VARIABLES
    values,          \* the slice avg_min_max is given, as runs of equal values
    traces,          \* the trace list a call is given
    fn_name,         \* the function name find_all_spans is given
    op,              \* the operation that returned last, "none" before any
    start_pos,       \* the start_pos the last direct find_end call was given
    result,          \* what the last call returned, or the panic
    pc,              \* where a find_all_spans call stands, "idle" between calls
    spans,           \* find_all_spans: the vector of spans
    cursor,          \* find_all_spans: the next index of the filtered iterator
    start_position,  \* find_all_spans: the loop variable
    queue_size,      \* find_end: the nesting counter
    iter_pos,        \* find_end: the next index of the skipping iterator
    returned         \* the results of the find_all_spans calls run step by step

locals == <<pc, spans, cursor, start_position, queue_size, iter_pos, returned>>

vars == <<values, traces, fn_name, op, start_pos, result, locals>>

\* ------------------------------------------------------------------ bounds

\* Longest trace list drawn for the find_end calls.
MaxLen == 3

\* Longest trace list drawn for the find_all_spans calls.
MaxSpanLen == 4

\* Most StartSync/EndSync pairs between a start and its closing EndSync.
MaxPairs == 3

\* Longest trace list drawn for the find_all_spans calls over every scope.
MaxShapeLen == 4

\* Longest trace list drawn for the calls over every marker kind.
MaxKindLen == 3

\* Longest trace list drawn for the calls run step by step, and how many calls.
MaxScanLen == 3
MaxCalls == 2

\* Most runs of equal values in a slice given to avg_min_max, and the greatest
\* value.
MaxRuns == 2
MaxVal == 2

\* ------------------------------------------------------------- input sets

TraceMarker == {"StartSync", "EndSync", "StartAsync", "EndAsync", "Dot"}

\* (pid, cpu) pairs: one scope, one differing in pid only, one in cpu only.
Scopes == {<<1, 1>>, <<2, 1>>, <<1, 2>>}

\* Function names are character sequences, so that "Foo" and "Foo2" are
\* different strings of which one is a prefix of the other.
Foo == <<"F", "o", "o">>
Foo2 == <<"F", "o", "o", "2">>
Functions == {Foo, Foo2}

Trace(S, M, F) ==
    {[pid |-> s[1], cpu |-> s[2], trace_marker |-> m, function |-> f] :
        s \in S, m \in M, f \in F}

SeqsUpTo(S, n) == UNION {[1..k -> S] : k \in 0..n}

\* ------------------------------------------------------- Option and panic

None == <<>>
Some(x) == <<x>>
IsSome(o) == Len(o) = 1

Ok(v) == [kind |-> "ok", val |-> v]
Panic == [kind |-> "panic", val |-> <<>>]

\* slice::get
Get(s, i) == IF i >= 0 /\ i < Len(s) THEN Some(s[i + 1]) ELSE None

\* ------------------------------------------------------------ the matcher

\* queue_modify without the comparison of pid and cpu.
queue_modify_any_scope(trace, start, size) ==
    CASE trace.trace_marker = "StartSync" -> size + 1
      [] trace.trace_marker = "EndSync" -> size - 1
      [] trace.trace_marker \in {"StartAsync", "EndAsync", "Dot"} -> size

\* queue_modify comparing the pid alone.
queue_modify_pid_only(trace, start, size) ==
    IF trace.pid = start.pid
    THEN CASE trace.trace_marker = "StartSync" -> size + 1
           [] trace.trace_marker = "EndSync" -> size - 1
           [] trace.trace_marker \in {"StartAsync", "EndAsync", "Dot"} -> size
    ELSE size

\* queue_modify counting the asynchronous markers like the synchronous ones.
queue_modify_async(trace, start, size) ==
    IF trace.pid = start.pid /\ trace.cpu = start.cpu
    THEN CASE trace.trace_marker \in {"StartSync", "StartAsync"} -> size + 1
           [] trace.trace_marker \in {"EndSync", "EndAsync"} -> size - 1
           [] trace.trace_marker = "Dot" -> size
    ELSE size

\* queue_modify that does not count a nested StartSync.
queue_modify_flat(trace, start, size) ==
    IF trace.pid = start.pid /\ trace.cpu = start.cpu
    THEN CASE trace.trace_marker = "EndSync" -> size - 1
           [] trace.trace_marker \in {"StartSync", "StartAsync", "EndAsync", "Dot"}
                -> size
    ELSE size

queue_modify(trace, start, size) ==
    IF trace.pid = start.pid /\ trace.cpu = start.cpu
    THEN CASE trace.trace_marker = "StartSync" -> size + 1
           [] trace.trace_marker = "EndSync" -> size - 1
           [] trace.trace_marker \in {"StartAsync", "EndAsync", "Dot"} -> size
    ELSE size

\* Iterator::rposition in place of position: the last 0, not the first.
RECURSIVE position_last(_, _, _, _, _)
position_last(trs, start, i, n, size) ==
    IF i >= Len(trs)
    THEN None
    ELSE LET q == queue_modify(trs[i + 1], start, size)
             later == position_last(trs, start, i + 1, n + 1, q)
         IN  IF IsSome(later) THEN later ELSE IF q = 0 THEN Some(n) ELSE None

\* Iterator::position over traces.iter().skip(..).map(queue_modify ..): `i` is
\* the index of the next record, `n` the number of items consumed so far.  The
\* closure updates the counter and yields it; position stops at the first 0.
RECURSIVE position(_, _, _, _, _)
position(trs, start, i, n, size) ==
    IF i >= Len(trs)
    THEN None
    ELSE LET q == queue_modify(trs[i + 1], start, size)
         IN  IF q = 0 THEN Some(n) ELSE position(trs, start, i + 1, n + 1, q)

\* find_end mapping the found position to start_pos + pos.
find_end_off_by_one(sp, trs) ==
    LET start == Get(trs, sp)
    IN  IF ~IsSome(start)
        THEN Panic
        ELSE LET found == position(trs, start[1], sp + 1, 0, 1)
             IN  Ok(IF IsSome(found) THEN Some(sp + found[1]) ELSE None)

\* find_end answering None for a missing start record.
find_end_no_unwrap(sp, trs) ==
    LET start == Get(trs, sp)
    IN  IF ~IsSome(start)
        THEN Ok(None)
        ELSE LET found == position(trs, start[1], sp + 1, 0, 1)
             IN  Ok(IF IsSome(found) THEN Some(sp + 1 + found[1]) ELSE None)

\* find_end counting the start record itself: the counter starts at 1 for a
\* StartSync start and at 0 for a start of any other kind.
find_end_by_kind(sp, trs) ==
    LET start == Get(trs, sp)
    IN  IF ~IsSome(start)
        THEN Panic
        ELSE LET first == IF start[1].trace_marker = "StartSync" THEN 1 ELSE 0
                 found == position(trs, start[1], sp + 1, 0, first)
             IN  Ok(IF IsSome(found) THEN Some(sp + 1 + found[1]) ELSE None)

\* find_end with the nesting counter starting at 0.
find_end_from_zero(sp, trs) ==
    LET start == Get(trs, sp)
    IN  IF ~IsSome(start)
        THEN Panic
        ELSE LET found == position(trs, start[1], sp + 1, 0, 0)
             IN  Ok(IF IsSome(found) THEN Some(sp + 1 + found[1]) ELSE None)

find_end(sp, trs) ==
    LET start == Get(trs, sp)
    IN  IF ~IsSome(start)
        THEN Panic
        ELSE LET found == position(trs, start[1], sp + 1, 0, 1)
             IN  Ok(IF IsSome(found) THEN Some(sp + 1 + found[1]) ELSE None)

IsPrefix(p, s) == Len(p) <= Len(s) /\ SubSeq(s, 1, Len(p)) = p

\* The filter letting through every record whose function starts with the name.
RECURSIVE start_traces_prefix(_, _, _)
start_traces_prefix(name, trs, i) ==
    IF i >= Len(trs)
    THEN <<>>
    ELSE (IF IsPrefix(name, trs[i + 1].function) THEN <<i>> ELSE <<>>)
             \o start_traces_prefix(name, trs, i + 1)

\* The filter letting through every record.
RECURSIVE start_traces_all(_, _, _)
start_traces_all(name, trs, i) ==
    IF i >= Len(trs) THEN <<>> ELSE <<i>> \o start_traces_all(name, trs, i + 1)

\* The (index, record) pairs the filter of find_all_spans lets through, in
\* order; the index stands for the pair.
RECURSIVE start_traces(_, _, _)
start_traces(name, trs, i) ==
    IF i >= Len(trs)
    THEN <<>>
    ELSE (IF trs[i + 1].function = name THEN <<i>> ELSE <<>>)
             \o start_traces(name, trs, i + 1)

\* The loop of find_all_spans leaving out a start that has no end.
RECURSIVE span_loop_skip(_, _, _)
span_loop_skip(starts, trs, pushed) ==
    IF starts = <<>>
    THEN Ok(pushed)
    ELSE LET end_position == find_end(Head(starts), trs)
         IN  IF end_position.kind = "panic" \/ ~IsSome(end_position.val)
             THEN span_loop_skip(Tail(starts), trs, pushed)
             ELSE span_loop_skip(Tail(starts), trs,
                      Append(pushed, [start |-> Head(starts),
                                     end |-> end_position.val[1]]))

\* The loop of find_all_spans: both unwraps panic on None.
RECURSIVE span_loop(_, _, _)
span_loop(starts, trs, pushed) ==
    IF starts = <<>>
    THEN Ok(pushed)
    ELSE LET end_position == find_end(Head(starts), trs)
         IN  IF end_position.kind = "panic" \/ ~IsSome(end_position.val)
             THEN Panic
             ELSE IF ~IsSome(Get(trs, end_position.val[1]))
             THEN Panic
             ELSE span_loop(Tail(starts), trs,
                      Append(pushed, [start |-> Head(starts),
                                     end |-> end_position.val[1]]))

find_all_spans(name, trs) == span_loop(start_traces(name, trs, 0), trs, <<>>)

\* ----------------------------------------------------------- find_end calls

\* No call was made: nothing returned, and no local is live.
NoCallYet ==
    /\ op = "none"
    /\ start_pos = 0
    /\ result = Ok(None)
    /\ pc = "idle"
    /\ spans = <<>>
    /\ cursor = 0
    /\ start_position = 0
    /\ queue_size = 0
    /\ iter_pos = 0
    /\ returned = <<>>

Init ==
    /\ traces \in SeqsUpTo(Trace(Scopes, TraceMarker, {Foo}), MaxLen)
    /\ fn_name = Foo
    /\ values = <<>>
    /\ NoCallYet

CallFindEnd ==
    \E sp \in 0..(Len(traces) + 1) :
        /\ op' = "find_end"
        /\ start_pos' = sp
        /\ result' = find_end(sp, traces)
        /\ UNCHANGED <<values, traces, fn_name, locals>>

Next == CallFindEnd

Spec == Init /\ [][Next]_vars

\* ----------------------------------------------------- find_all_spans calls

\* The three arms of queue_modify's match, in two scopes.
SpanMarkers == {"StartSync", "EndSync", "Dot"}
SpanScopes == {<<1, 1>>, <<2, 1>>}

InitSpans ==
    /\ traces \in SeqsUpTo(Trace(SpanScopes, SpanMarkers, Functions), MaxSpanLen)
    /\ fn_name \in Functions
    /\ values = <<>>
    /\ NoCallYet

CallFindAllSpans ==
    /\ op' = "find_all_spans"
    /\ result' = find_all_spans(fn_name, traces)
    /\ UNCHANGED <<values, traces, fn_name, start_pos, locals>>

NextSpans == CallFindAllSpans

SpecSpans == InitSpans /\ [][NextSpans]_vars

\* ------------------------------------------- find_end over nested call pairs

\* The traces of the unit tests: one pid and cpu, a "Foo" StartSync first, then
\* "Foo2" StartSync records and unnamed EndSync records, and an unnamed EndSync
\* last.
TestTrace(name, marker) ==
    [pid |-> 1, cpu |-> 1, trace_marker |-> marker, function |-> name]

TestRecord(marker) ==
    IF marker = "StartSync" THEN TestTrace(Foo2, marker) ELSE TestTrace(<<>>, marker)

InitNest ==
    /\ \E w \in SeqsUpTo({"StartSync", "EndSync"}, 2 * MaxPairs) :
           traces = <<TestTrace(Foo, "StartSync")>>
                        \o [k \in 1..Len(w) |-> TestRecord(w[k])]
                        \o <<TestRecord("EndSync")>>
    /\ fn_name = Foo
    /\ values = <<>>
    /\ NoCallYet

SpecNest == InitNest /\ [][Next]_vars

\* --------------------------------------- find_all_spans over every scope

\* Synchronous markers only, in the three scopes.
InitShape ==
    /\ traces \in SeqsUpTo(Trace(Scopes, {"StartSync", "EndSync"}, Functions),
                            MaxShapeLen)
    /\ fn_name = Foo
    /\ values = <<>>
    /\ NoCallYet

SpecShape == InitShape /\ [][NextSpans]_vars

\* ------------------------------------------ calls over every marker kind

\* Both operations on traces of all five marker kinds and both function
\* names, in one scope.
InitKinds ==
    /\ traces \in SeqsUpTo(Trace({<<1, 1>>}, TraceMarker, Functions), MaxKindLen)
    /\ fn_name = Foo
    /\ values = <<>>
    /\ NoCallYet

NextKinds ==
    \/ CallFindEnd
    \/ CallFindAllSpans

SpecKinds == InitKinds /\ [][NextKinds]_vars

\* ------------------------------------------- find_all_spans, step by step

\* The calls of find_all_spans(fn_name, traces) taken one statement at a time,
\* with the locals of find_all_spans and find_end as variables: a local keeps
\* its last value until the statement that initialises it runs again.

InitScan ==
    /\ traces \in SeqsUpTo(Trace(SpanScopes, SpanMarkers, Functions), MaxScanLen)
    /\ fn_name \in Functions
    /\ values = <<>>
    /\ NoCallYet

\* find_all_spans entered without an empty vector of its own.
FindAllSpansBegin_stale ==
    /\ pc = "idle"
    /\ Len(returned) < MaxCalls
    /\ cursor' = 0
    /\ pc' = "for"
    /\ UNCHANGED <<values, traces, fn_name, op, start_pos, result, spans,
                   start_position, queue_size, iter_pos, returned>>

\* let mut spans = Vec::new(); let start_traces = traces.iter().enumerate()...
FindAllSpansBegin ==
    /\ pc = "idle"
    /\ Len(returned) < MaxCalls
    /\ spans' = <<>>
    /\ cursor' = 0
    /\ pc' = "for"
    /\ UNCHANGED <<values, traces, fn_name, op, start_pos, result,
                   start_position, queue_size, iter_pos, returned>>

\* The indices at or after the cursor that the filter lets through.
Filtered == {i \in cursor..(Len(traces) - 1) : traces[i + 1].function = fn_name}

\* for (start_position, start_trace) in start_traces: the filter's next item.
ForNext ==
    /\ pc = "for"
    /\ Filtered # {}
    /\ LET i == CHOOSE i \in Filtered : \A j \in Filtered : i <= j
       IN  /\ start_position' = i
           /\ cursor' = i + 1
    /\ pc' = "find_end"
    /\ UNCHANGED <<values, traces, fn_name, op, start_pos, result,
                   spans, queue_size, iter_pos, returned>>

\* The filtered iterator is exhausted: the function returns spans.
ForDone ==
    /\ pc = "for"
    /\ Filtered = {}
    /\ cursor' = Len(traces)
    /\ op' = "find_all_spans"
    /\ result' = Ok(spans)
    /\ returned' = Append(returned, Ok(spans))
    /\ pc' = "idle"
    /\ UNCHANGED <<values, traces, fn_name, start_pos, spans,
                   start_position, queue_size, iter_pos>>

\* find_end entered with the nesting counter at 0.
FindEndBegin_zero ==
    /\ pc = "find_end"
    /\ IsSome(Get(traces, start_position))
    /\ queue_size' = 0
    /\ iter_pos' = start_position + 1
    /\ pc' = "position"
    /\ UNCHANGED <<values, traces, fn_name, op, start_pos, result,
                   spans, cursor, start_position, returned>>

\* find_end: let mut queue_size = 1; the start record is there (the filter
\* yielded its index); the iterator skips start_pos + 1 records.
FindEndBegin ==
    /\ pc = "find_end"
    /\ IsSome(Get(traces, start_position))
    /\ queue_size' = 1
    /\ iter_pos' = start_position + 1
    /\ pc' = "position"
    /\ UNCHANGED <<values, traces, fn_name, op, start_pos, result,
                   spans, cursor, start_position, returned>>

\* position takes the next item: the closure runs queue_modify and yields
\* queue_size.  On 0 find_end returns Some(iter_pos), the record at it is
\* there, and the span is pushed.
PositionNext ==
    /\ pc = "position"
    /\ iter_pos < Len(traces)
    /\ LET q == queue_modify(traces[iter_pos + 1], traces[start_position + 1],
                             queue_size)
       IN  /\ queue_size' = q
           /\ IF q = 0
              THEN /\ spans' = Append(spans, [start |-> start_position,
                                              end |-> iter_pos])
                   /\ pc' = "for"
              ELSE /\ spans' = spans
                   /\ pc' = "position"
    /\ iter_pos' = iter_pos + 1
    /\ UNCHANGED <<values, traces, fn_name, op, start_pos, result,
                   cursor, start_position, returned>>

\* The iterator is exhausted: position is None, find_end returns None and the
\* unwrap in find_all_spans panics.
PositionNone ==
    /\ pc = "position"
    /\ iter_pos >= Len(traces)
    /\ op' = "find_all_spans"
    /\ result' = Panic
    /\ returned' = Append(returned, Panic)
    /\ pc' = "idle"
    /\ UNCHANGED <<values, traces, fn_name, start_pos, spans, cursor,
                   start_position, queue_size, iter_pos>>

NextScan ==
    \/ FindAllSpansBegin
    \/ ForNext
    \/ ForDone
    \/ FindEndBegin
    \/ PositionNext
    \/ PositionNone

SpecScan == InitScan /\ [][NextScan]_vars

\* ------------------------------------------------------------ avg_min_max

\* The greatest u16: the type of AvgMingMax.number.
U16Max == 65535

\* T is the naturals, with the truncating division of the integer types.  A
\* slice is a sequence of runs, [val |-> v, len |-> n] standing for n >= 1
\* consecutive elements equal to v, so that a slice of more than U16Max
\* elements is a short sequence.
RunLens == {1, 2, U16Max - 1, U16Max, U16Max + 1}

Runs == {[val |-> v, len |-> n] : v \in 0..MaxVal, n \in RunLens}

PanicWith(msg) == [kind |-> "panic", val |-> msg]

\* values.len()
RECURSIVE slice_len(_)
slice_len(vs) == IF vs = <<>> THEN 0 ELSE Head(vs).len + slice_len(Tail(vs))

\* values.iter().min(): None for the empty slice.
RECURSIVE iter_min(_)
iter_min(vs) ==
    IF vs = <<>>
    THEN None
    ELSE LET rest == iter_min(Tail(vs))
         IN  IF IsSome(rest) /\ rest[1] < Head(vs).val THEN rest ELSE Some(Head(vs).val)

\* values.iter().max(): None for the empty slice.
RECURSIVE iter_max(_)
iter_max(vs) ==
    IF vs = <<>>
    THEN None
    ELSE LET rest == iter_max(Tail(vs))
         IN  IF IsSome(rest) /\ rest[1] >= Head(vs).val THEN rest ELSE Some(Head(vs).val)

\* values.iter().cloned().sum()
RECURSIVE iter_sum(_)
iter_sum(vs) ==
    IF vs = <<>> THEN 0 ELSE Head(vs).val * Head(vs).len + iter_sum(Tail(vs))

\* avg_min_max with `values.len() as u16` for the checked conversion.
avg_min_max_cast(vs) ==
    LET number == slice_len(vs) % (U16Max + 1)
        min == iter_min(vs)
        max == iter_max(vs)
    IN  IF ~IsSome(min) THEN PanicWith("Could not find min")
        ELSE IF ~IsSome(max) THEN PanicWith("Could not find max")
        ELSE IF number = 0 THEN PanicWith("attempt to divide by zero")
        ELSE Ok([avg |-> iter_sum(vs) \div number, min |-> min[1],
                 max |-> max[1], number |-> number])

avg_min_max(vs) ==
    LET len == slice_len(vs)
        min == iter_min(vs)
        max == iter_max(vs)
    IN  IF len > U16Max THEN PanicWith("You have too many runs")
        ELSE IF ~IsSome(min) THEN PanicWith("Could not find min")
        ELSE IF ~IsSome(max) THEN PanicWith("Could not find max")
        ELSE Ok([avg |-> iter_sum(vs) \div len, min |-> min[1],
                 max |-> max[1], number |-> len])

InitAvg ==
    /\ values \in SeqsUpTo(Runs, MaxRuns)
    /\ traces = <<>>
    /\ fn_name = Foo
    /\ NoCallYet

CallAvgMinMax ==
    /\ op' = "avg_min_max"
    /\ result' = avg_min_max(values)
    /\ UNCHANGED <<values, traces, fn_name, start_pos, locals>>

NextAvg == CallAvgMinMax

SpecAvg == InitAvg /\ [][NextAvg]_vars

\* ------------------------------------------------- the matching rule, stated

InScope(t, start) == t.pid = start.pid /\ t.cpu = start.cpu

\* The nesting counter after the record at index p of a scan started at sp:
\* 1, plus the in-scope StartSync records, minus the in-scope EndSync records,
\* among the indices sp+1..p.
Counter(trs, sp, p) ==
    1 + Cardinality({j \in (sp + 1)..p :
                        InScope(trs[j + 1], trs[sp + 1])
                        /\ trs[j + 1].trace_marker = "StartSync"})
      - Cardinality({j \in (sp + 1)..p :
                        InScope(trs[j + 1], trs[sp + 1])
                        /\ trs[j + 1].trace_marker = "EndSync"})

Zeros(trs, sp) == {p \in (sp + 1)..(Len(trs) - 1) : Counter(trs, sp, p) = 0}

Least(S) == CHOOSE p \in S : \A q \in S : p <= q

FindEndDone == op = "find_end" /\ start_pos < Len(traces)

\* C1: for a valid start_pos, find_end returns Some(p) with p the smallest index
\* greater than start_pos at which the nesting counter is 0, and None exactly
\* when there is no such index.
C1_FindEndFirstZero ==
    FindEndDone =>
        /\ result.kind = "ok"
        /\ IF Zeros(traces, start_pos) = {}
           THEN result.val = None
           ELSE result.val = Some(Least(Zeros(traces, start_pos)))

\* A scan that passes an in-scope nested record and an out-of-scope EndSync
\* before it matches.
C1_Witness ==
    /\ FindEndDone
    /\ start_pos = 0
    /\ Len(traces) = 3
    /\ traces[2].trace_marker = "EndSync"
    /\ ~InScope(traces[2], traces[1])
    /\ result = Ok(Some(2))

\* The indices of the records in the start's scope, in order.
RECURSIVE ScopeIndices(_, _, _)
ScopeIndices(trs, start, i) ==
    IF i >= Len(trs)
    THEN <<>>
    ELSE (IF InScope(trs[i + 1], start) THEN <<i>> ELSE <<>>)
             \o ScopeIndices(trs, start, i + 1)

Pick(trs, idx) == [k \in 1..Len(idx) |-> trs[idx[k] + 1]]

\* The index in the picked list of the record at index i of the full list.
Rank(idx, i) == (CHOOSE k \in 1..Len(idx) : idx[k] = i) - 1

\* C2: records out of the start's (pid, cpu) scope never change the counter: the
\* record find_end matches in the full trace is the record it matches in the
\* trace restricted to the start's scope, and it is never out of scope.
C2_ScopeIsolation ==
    FindEndDone =>
        LET start == traces[start_pos + 1]
            idx == ScopeIndices(traces, start, 0)
            inner == find_end(Rank(idx, start_pos), Pick(traces, idx))
        IN  /\ \A k \in 1..Len(traces), q \in -1..(MaxLen + 1) :
                   ~InScope(traces[k], start)
                       => queue_modify(traces[k], start, q) = q
            /\ result.kind = "ok"
            /\ inner.kind = "ok"
            /\ IsSome(result.val) = IsSome(inner.val)
            /\ IsSome(result.val) =>
                   /\ result.val[1] = idx[inner.val[1] + 1]
                   /\ InScope(traces[result.val[1] + 1], start)

\* An EndSync of another cpu comes first and the span closes on the later
\* EndSync of the start's scope.
C2_Witness ==
    /\ FindEndDone
    /\ start_pos = 0
    /\ Len(traces) = 3
    /\ traces[1].trace_marker = "StartSync"
    /\ traces[2].trace_marker = "EndSync"
    /\ traces[2].pid = traces[1].pid
    /\ traces[2].cpu # traces[1].cpu
    /\ traces[3].trace_marker = "EndSync"
    /\ InScope(traces[3], traces[1])
    /\ result = Ok(Some(2))

Unnested == {"StartAsync", "EndAsync", "Dot"}

\* The indices of the start record and of the StartSync and EndSync records.
RECURSIVE SyncIndices(_, _, _)
SyncIndices(trs, sp, i) ==
    IF i >= Len(trs)
    THEN <<>>
    ELSE (IF i = sp \/ trs[i + 1].trace_marker \notin Unnested
          THEN <<i>> ELSE <<>>)
             \o SyncIndices(trs, sp, i + 1)

\* C3: StartAsync, EndAsync and Dot records never change the counter, in scope
\* or not: find_end matches the same record with all of them removed.
C3_MarkerFiltering ==
    FindEndDone =>
        LET start == traces[start_pos + 1]
            idx == SyncIndices(traces, start_pos, 0)
            inner == find_end(Rank(idx, start_pos), Pick(traces, idx))
        IN  /\ \A k \in 1..Len(traces), q \in -1..(MaxLen + 1) :
                   traces[k].trace_marker \in Unnested
                       => queue_modify(traces[k], start, q) = q
            /\ result.kind = "ok"
            /\ inner.kind = "ok"
            /\ IsSome(result.val) = IsSome(inner.val)
            /\ IsSome(result.val) => result.val[1] = idx[inner.val[1] + 1]

\* An in-scope StartAsync lies between the start and its EndSync.
C3_Witness ==
    /\ FindEndDone
    /\ start_pos = 0
    /\ Len(traces) = 3
    /\ traces[1].trace_marker = "StartSync"
    /\ traces[2].trace_marker = "StartAsync"
    /\ InScope(traces[2], traces[1])
    /\ traces[3].trace_marker = "EndSync"
    /\ result = Ok(Some(2))

\* C10: find_end panics on a start_pos that is no index of traces, the empty
\* list included, and returns None for the last index.
C10_StartOutOfRange ==
    op = "find_end" =>
        /\ start_pos >= Len(traces) => result = Panic
        /\ start_pos = Len(traces) - 1 => result = Ok(None)

C10_Witness ==
    /\ op = "find_end"
    /\ Len(traces) = 2
    /\ start_pos = 2
    /\ result = Panic

\* ------------------------------------------------------- find_all_spans

FindAllSpansDone == op = "find_all_spans"

\* The indices of the records whose function is the queried name.
Matching == {i \in 0..(Len(traces) - 1) : traces[i + 1].function = fn_name}

Unmatched == {i \in Matching : find_end(i, traces) = Ok(None)}

\* C4: when every record whose function equals fn_name has a match,
\* find_all_spans returns one span per such record and none for any other
\* record, each pairing the record with the one at find_end of its index, in
\* increasing order of the start indices.
C4_OneSpanPerStart ==
    (FindAllSpansDone /\ Unmatched = {}) =>
        /\ result.kind = "ok"
        /\ Len(result.val) = Cardinality(Matching)
        /\ \A k \in 1..Len(result.val) :
               /\ result.val[k].start \in Matching
               /\ find_end(result.val[k].start, traces) = Ok(Some(result.val[k].end))
        /\ \A k, l \in 1..Len(result.val) :
               k < l => result.val[k].start < result.val[l].start

\* "Foo" is queried in a trace where a matched "Foo2" start lies inside the
\* "Foo" span.
C4_Witness ==
    /\ FindAllSpansDone
    /\ fn_name = Foo
    /\ Len(traces) = 4
    /\ traces[1].function = Foo
    /\ traces[2].function = Foo2
    /\ traces[2].trace_marker = "StartSync"
    /\ find_end(1, traces) = Ok(Some(2))
    /\ result = Ok(<<[start |-> 0, end |-> 3]>>)

\* C5: when a record whose function equals fn_name has no matching end,
\* find_all_spans panics: it returns no sequence at all.
C5_UnterminatedPanics ==
    (FindAllSpansDone /\ Unmatched # {}) => result = Panic

\* The first start has its end, the second has none.
C5_Witness ==
    /\ FindAllSpansDone
    /\ Cardinality(Matching) = 2
    /\ Cardinality(Unmatched) = 1
    /\ \E i \in Matching \ Unmatched : \A j \in Unmatched : i < j
    /\ result = Panic

\* C6: when no record has the queried function, the empty list included,
\* find_all_spans returns the empty sequence, however unbalanced the trace.
C6_NoStartNoSpan ==
    (FindAllSpansDone /\ Matching = {}) => result = Ok(<<>>)

\* Four StartSync records of another function and no EndSync.
C6_Witness ==
    /\ FindAllSpansDone
    /\ Matching = {}
    /\ Len(traces) = 4
    /\ \A k \in 1..4 : traces[k].trace_marker = "StartSync"
    /\ result = Ok(<<>>)

PartialOverlap(a, b) == a.start < b.start /\ b.start < a.end /\ a.end < b.end

\* C7 as claimed: no two spans of one result partially overlap.
C7_NoPartialOverlap ==
    (FindAllSpansDone /\ result.kind = "ok") =>
        \A k, l \in 1..Len(result.val) :
            ~PartialOverlap(result.val[k], result.val[l])

\* C7: no two spans of one result whose start records have the same pid and the
\* same cpu partially overlap.
C7_NoPartialOverlapInScope ==
    (FindAllSpansDone /\ result.kind = "ok") =>
        \A k, l \in 1..Len(result.val) :
            InScope(traces[result.val[l].start + 1], traces[result.val[k].start + 1])
                => ~PartialOverlap(result.val[k], result.val[l])

\* Two spans of one scope, the later one inside the earlier one.
C7_Witness ==
    /\ FindAllSpansDone
    /\ \A k \in 1..Len(traces) : InScope(traces[k], traces[1])
    /\ result = Ok(<<[start |-> 0, end |-> 3], [start |-> 1, end |-> 2]>>)

\* ------------------------------------------------------------ nested pairs

\* Every prefix holds at least as many StartSync as EndSync, the whole as many.
Balanced(w) ==
    LET depth(n) == Cardinality({k \in 1..n : w[k].trace_marker = "StartSync"})
                        - Cardinality({k \in 1..n : w[k].trace_marker = "EndSync"})
    IN  /\ \A n \in 1..Len(w) : depth(n) >= 0
        /\ depth(Len(w)) = 0

\* One start, then nested or sibling StartSync/EndSync pairs of other functions,
\* then one EndSync, all of the start's pid and cpu.
NestShape(trs) ==
    /\ Len(trs) >= 2
    /\ \A k \in 1..Len(trs) : InScope(trs[k], trs[1])
    /\ trs[Len(trs)].trace_marker = "EndSync"
    /\ \A k \in 2..(Len(trs) - 1) :
           /\ trs[k].trace_marker \in {"StartSync", "EndSync"}
           /\ trs[k].function # trs[1].function
    /\ Balanced(SubSeq(trs, 2, Len(trs) - 1))

\* C8: after one start and k nested or sibling pairs, find_end(0, traces) is
\* the index of the final EndSync.
C8_NestingCorrectness ==
    (op = "find_end" /\ start_pos = 0 /\ NestShape(traces)) =>
        result = Ok(Some(Len(traces) - 1))

\* A pair nested two deep followed by a sibling pair.
C8_Witness ==
    /\ op = "find_end"
    /\ start_pos = 0
    /\ NestShape(traces)
    /\ [k \in 1..Len(traces) |-> traces[k].trace_marker]
           = <<"StartSync", "StartSync", "StartSync", "EndSync", "EndSync",
               "StartSync", "EndSync", "EndSync">>
    /\ result = Ok(Some(7))

\* ------------------------------------------------------------ repeated calls

\* The calls run step by step return what the function of the inputs returns.
ScanAgrees ==
    \A k \in 1..Len(returned) : returned[k] = find_all_spans(fn_name, traces)

SameResults == \A k, l \in 1..Len(returned) : returned[k] = returned[l]

\* C9: the calls of find_all_spans with one function name on one trace list
\* return the same spans in the same order, or all panic, and no step of a
\* call changes the trace list.
C9_Idempotent ==
    [][traces' = traces /\ fn_name' = fn_name /\ SameResults']_vars

\* Two calls have returned the same two spans.
C9_Witness ==
    /\ Len(returned) = 2
    /\ returned[1] = returned[2]
    /\ returned[1].kind = "ok"
    /\ Len(returned[1].val) = 2

\* ------------------------------------------------- the start record's kind

\* The trace with the marker of the record at index i replaced.
WithMarker(trs, i, m) ==
    [k \in 1..Len(trs) |->
        IF k = i + 1 THEN [trs[k] EXCEPT !.trace_marker = m] ELSE trs[k]]

\* C11: find_end's result does not depend on the marker kind of the record at
\* start_pos (the counter begins at 1 whatever it is), and find_all_spans takes
\* every record whose function equals fn_name as a start, whatever its kind:
\* the starts of the returned spans are all of them, and it panics exactly
\* when one of them has no end.
C11_StartKindIgnored ==
    /\ FindEndDone =>
           \A m \in TraceMarker :
               find_end(start_pos, WithMarker(traces, start_pos, m)) = result
    /\ FindAllSpansDone =>
           /\ result.kind = "ok" =>
                  {result.val[k].start : k \in 1..Len(result.val)} = Matching
           /\ result = Panic <=> Unmatched # {}

\* A span whose start record is an EndSync, next to one whose start is a Dot.
C11_Witness ==
    /\ FindAllSpansDone
    /\ result.kind = "ok"
    /\ Len(result.val) = 2
    /\ traces[result.val[1].start + 1].trace_marker = "Dot"
    /\ traces[result.val[2].start + 1].trace_marker = "EndSync"

\* ------------------------------------------------------ the nesting counter

\* A step in which position takes a record: the one at iter_pos.
Visits == pc = "position" /\ iter_pos' = iter_pos + 1

\* C12: in every find_end scan the counter is at least 1 as the scan starts and
\* after every visited record before the match, a record changes it by at most
\* 1, it is 0 only at the matched record, where the scan stops with that
\* record as the span's end, and it is never negative.
C12_CounterDiscipline ==
    [][/\ queue_size' >= 0
       /\ pc' = "position" => queue_size' >= 1
       /\ Visits =>
              /\ queue_size' - queue_size \in {-1, 0, 1}
              /\ iter_pos > start_position
              /\ queue_size' = 0 <=> pc' # "position"
              /\ queue_size' = 0 =>
                     spans' = Append(spans, [start |-> start_position,
                                             end |-> iter_pos])
       /\ (pc # "position" /\ pc' # "position") => queue_size' = queue_size
      ]_vars

\* A scan has just matched at its second record, the first having left the
\* counter at 1.
C12_Witness ==
    /\ pc = "for"
    /\ queue_size = 0
    /\ iter_pos = 3
    /\ spans = <<[start |-> 0, end |-> 2]>>

\* ---------------------------------------------------- what follows the match

KindRecords == Trace(SpanScopes, TraceMarker, Functions)

\* C13: once find_end returns Some(p), the records after p do not matter: the
\* result is the same with the trace cut anywhere after p and with any record
\* appended; and a record of another function appended to a trace gives
\* find_all_spans no further span.
C13_SuffixIndependence ==
    /\ (FindEndDone /\ result.kind = "ok" /\ IsSome(result.val)) =>
           /\ \A n \in (result.val[1] + 1)..Len(traces) :
                  find_end(start_pos, SubSeq(traces, 1, n)) = result
           /\ \A t \in KindRecords :
                  find_end(start_pos, Append(traces, t)) = result
    /\ (FindAllSpansDone /\ result.kind = "ok") =>
           \A t \in KindRecords :
               t.function # fn_name =>
                   find_all_spans(fn_name, Append(traces, t)) = result

\* The match is followed by an unterminated StartSync of the start's scope.
C13_Witness ==
    /\ FindEndDone
    /\ start_pos = 0
    /\ result = Ok(Some(1))
    /\ Len(traces) = 3
    /\ traces[3].trace_marker = "StartSync"
    /\ InScope(traces[3], traces[1])

\* ------------------------------------------------------- the shape of a span

\* C14: every span find_all_spans returns ends at a greater index than it
\* starts, at an EndSync record of the start record's pid and cpu, and starts
\* at a record whose function is fn_name.
C14_SpanShape ==
    (FindAllSpansDone /\ result.kind = "ok") =>
        \A k \in 1..Len(result.val) :
            LET s == result.val[k].start
                e == result.val[k].end
            IN  /\ 0 <= s
                /\ s < e
                /\ e < Len(traces)
                /\ traces[e + 1].trace_marker = "EndSync"
                /\ traces[e + 1].pid = traces[s + 1].pid
                /\ traces[e + 1].cpu = traces[s + 1].cpu
                /\ traces[s + 1].function = fn_name

\* A span that passes an EndSync of its pid on another cpu and one of
\* another pid on its cpu before its end.
C14_Witness ==
    /\ FindAllSpansDone
    /\ result = Ok(<<[start |-> 0, end |-> 3]>>)
    /\ traces[2].trace_marker = "EndSync"
    /\ traces[2].pid = traces[1].pid
    /\ traces[2].cpu # traces[1].cpu
    /\ traces[3].trace_marker = "EndSync"
    /\ traces[3].pid # traces[1].pid
    /\ traces[3].cpu = traces[1].cpu

\* ------------------------------------------------------------ the aggregate

\* The number of elements and their sum, counted run by run.
Count ==
    LET f[k \in 0..Len(values)] == IF k = 0 THEN 0 ELSE f[k - 1] + values[k].len
    IN  f[Len(values)]

Total ==
    LET f[k \in 0..Len(values)] ==
            IF k = 0 THEN 0 ELSE f[k - 1] + values[k].len * values[k].val
    IN  f[Len(values)]

Present == {values[k].val : k \in 1..Len(values)}

\* C15: avg_min_max panics on more than 65535 values and, at the minimum
\* lookup, on none; on 1 to 65535 values it returns their number, the least
\* and the greatest of them, and their sum divided by their number.
C15_AvgMinMax ==
    op = "avg_min_max" =>
        /\ Count > U16Max => result = PanicWith("You have too many runs")
        /\ Count = 0 => result = PanicWith("Could not find min")
        /\ (1 <= Count /\ Count <= U16Max) =>
               /\ result.kind = "ok"
               /\ result.val.number = Count
               /\ result.val.min \in Present
               /\ \A v \in Present : result.val.min <= v
               /\ result.val.max \in Present
               /\ \A v \in Present : v <= result.val.max
               /\ result.val.avg * Count <= Total
               /\ Total < (result.val.avg + 1) * Count

\* 65535 values, the most that are accepted, of two different values.
C15_Witness ==
    /\ op = "avg_min_max"
    /\ Count = U16Max
    /\ result.kind = "ok"
    /\ result.val.number = U16Max
    /\ result.val.min < result.val.max

====
